---- MODULE Spec2Model ----
(***************************************************************************)
(* The lead notification dispatcher of app/services/                       *)
(* whatsapp_notification_service.py: send_new_lead_notification with its   *)
(* fan-out _send_notifications_to_lawyers, check_notification_status and   *)
(* reset_notification_status, run against a Firestore "leads" collection,  *)
(* the ENABLE_WHATSAPP flag, the lawyers configuration and the Baileys     *)
(* messaging client.                                                       *)
(*                                                                         *)
(* The three operations are coroutines on one event loop.  The only await  *)
(* that suspends is the one on baileys_service.send_whatsapp_message, so   *)
(* a dispatch runs atomically from its start to its first send, from the   *)
(* return of one send to the next send, and from the return of the last    *)
(* send to its own return; check and reset hold no await and are atomic.   *)
(*                                                                         *)
(* Python dicts are records (a missing key is a missing field), None is    *)
(* the value None below.  Every datetime.now() is the one value Now: the   *)
(* model keeps whether a timestamp is set, not which instant it holds.     *)
(*                                                                         *)
(* Spec lets calls overlap, SeqSpec does not.  FormatSpec runs the field   *)
(* extraction of lines 67-85 and the alert text of lines 145-155 on their  *)
(* own, for every lead_data of LeadData; in Spec and SeqSpec the variables *)
(* of FormatSpec stay as they start.                                       *)
(*                                                                         *)
(* WebhookSpec runs whatsapp_webhook of app/routes/whatsapp.py (lines      *)
(* 28-91) on one posted body, with the orchestrator it awaits returning    *)
(* or raising; the other specifications leave its variables alone.         *)
(***************************************************************************)
EXTENDS Integers, Sequences, FiniteSets, Bags, TLC

\* ---- bounds ----
MaxCalls == 2    \* dispatch calls suspended on a send at the same time
NumLawyers == 3  \* configured recipients (the second and the fourth have no phone)

\* ---- values ----
None == [none |-> TRUE]
EmptyDict == <<>>
Now == [ts |-> "now"]

\* dict.get(key, default)
DictGet(d, key, default) == IF key \in DOMAIN d THEN d[key] ELSE default

\* Python truthiness of a stored was_notified value (a bool, or None)
Truthy(v) == v = TRUE

\* The lead ids callers pass: L1 has a document in the collection, L2 has none.
Leads == {"L1", "L2"}

LawyerNames == <<"Ana", "Bruno", "Carla", "Davi", "Elisa">>
\* every other recipient of the configuration has no phone number
LawyerPhones == <<"5511911110001", "", "5511911110003", "", "5511911110005">>

\* get_lawyers_for_notification(): the configured recipients
lawyers == [i \in 1..NumLawyers |-> [name |-> LawyerNames[i], phone |-> LawyerPhones[i]]]

VARIABLES
  enabled,     \* os.getenv("ENABLE_WHATSAPP") == "true"
  store,       \* the leads collection: lead id -> document (notification fields)
  suspended,   \* bag of dispatch calls suspended on a send
  delivered,   \* lead id -> recipients whose send returned true since the last reset call
  duplicated,  \* lead id -> recipients whose send returned true twice or more since then
  last,        \* the call that returned last: operation, argument, result and effects
  lead_data,   \* the lead_data argument whose answers are extracted
  extracted,   \* lead_name, lead_phone, area, situation after lines 66-85 (None before)
  notification_message, \* the alert text of lines 145-155, line by line (None before)
  request,     \* the body of the POST to /whatsapp/webhook
  webhook_call \* whatsapp_webhook: not started, awaiting the orchestrator, or returned

vars == <<enabled, store, suspended, delivered, duplicated, last,
          lead_data, extracted, notification_message, request, webhook_call>>

\* the variables of whatsapp_webhook; the other operations leave them alone
webhook == <<request, webhook_call>>

\* whatsapp_webhook has not been called
Idle == [pc |-> "idle"]

\* the variables of the extraction and of the message; the calls modelled
\* with their store and sends leave them alone
formatting == <<lead_data, extracted, notification_message>>

NoCall == [op |-> "none"]

\* ---- exceptions ----
\* A block of code ends by returning a value or by raising.
Returns(v) == [exc |-> FALSE, ret |-> v]
Raises == [exc |-> TRUE, ret |-> None]

\* a block without its except clause: the exception goes on to the caller
try_except_missing(body, handler) == body

\* try: body / except Exception: return handler
try_except(body, handler) == IF body.exc THEN Returns(handler) ELSE body

\* ---- the store (Firestore document reference) ----
\* lead_doc.exists
exists(st, lead_id) == lead_id \in DOMAIN st

\* lead_ref.update(fields): a partial update, the other fields are kept; it
\* raises on a storage error and for a document that does not exist.
update_raises(st, lead_id, storageError) == storageError \/ ~exists(st, lead_id)
update(st, lead_id, fields) == [st EXCEPT ![lead_id] = fields @@ st[lead_id]]

\* ---- send_new_lead_notification, lines 32-64: flag and duplicate guard ----
Disabled ==
  [success |-> FALSE, reason |-> "whatsapp_disabled",
   message |-> "WhatsApp notifications are disabled via environment variable"]
LeadNotFound ==
  [success |-> FALSE, reason |-> "lead_not_found", message |-> "Lead not found"]
AlreadyNotified ==
  [success |-> FALSE, reason |-> "already_notified", message |-> "Lead was already notified"]
\* the except branch of send_new_lead_notification
DispatchError ==
  [success |-> FALSE, reason |-> "error", message |-> "str(e)", notifications_sent |-> 0]

\* guard without the duplicate check of lines 57-64
guard_without_duplicate_check(flag, st, lead_id, getRaises) ==
  IF ~flag
    THEN [out |-> Returns(Disabled), proceed |-> FALSE, reads |-> 0, saw |-> "unread"]
  ELSE IF getRaises
    THEN [out |-> Raises, proceed |-> FALSE, reads |-> 1, saw |-> "error"]
  ELSE IF ~exists(st, lead_id)
    THEN [out |-> Returns(LeadNotFound), proceed |-> FALSE, reads |-> 1, saw |-> "absent"]
  ELSE [out |-> Returns(None), proceed |-> TRUE, reads |-> 1, saw |-> "unnotified"]

\* guard that fetches the lead before it looks at the flag
guard_reads_before_flag(flag, st, lead_id, getRaises) ==
  IF getRaises
    THEN [out |-> Raises, proceed |-> FALSE, reads |-> 1, saw |-> "error"]
  ELSE IF ~flag
    THEN [out |-> Returns(Disabled), proceed |-> FALSE, reads |-> 1, saw |-> "unread"]
  ELSE IF ~exists(st, lead_id)
    THEN [out |-> Returns(LeadNotFound), proceed |-> FALSE, reads |-> 1, saw |-> "absent"]
  ELSE IF Truthy(DictGet(st[lead_id], "was_notified", FALSE))
    THEN [out |-> Returns(AlreadyNotified), proceed |-> FALSE, reads |-> 1, saw |-> "notified"]
  ELSE [out |-> Returns(None), proceed |-> TRUE, reads |-> 1, saw |-> "unnotified"]

\* guard without the lead_doc.exists check of lines 47-53
guard_without_exists_check(flag, st, lead_id, getRaises) ==
  IF ~flag
    THEN [out |-> Returns(Disabled), proceed |-> FALSE, reads |-> 0, saw |-> "unread"]
  ELSE IF getRaises
    THEN [out |-> Raises, proceed |-> FALSE, reads |-> 1, saw |-> "error"]
  ELSE IF exists(st, lead_id) /\ Truthy(DictGet(st[lead_id], "was_notified", FALSE))
    THEN [out |-> Returns(AlreadyNotified), proceed |-> FALSE, reads |-> 1, saw |-> "notified"]
  ELSE [out |-> Returns(None), proceed |-> TRUE, reads |-> 1, saw |-> "unnotified"]

\* What the guard does with the flag, the store and the lead id: the block's
\* outcome (proceed: the call goes on to the fan-out), the number of
\* lead_ref.get() calls it made and what the get showed.
guard(flag, st, lead_id, getRaises) ==
  IF ~flag
    THEN [out |-> Returns(Disabled), proceed |-> FALSE, reads |-> 0, saw |-> "unread"]
  ELSE IF getRaises
    THEN [out |-> Raises, proceed |-> FALSE, reads |-> 1, saw |-> "error"]
  ELSE IF ~exists(st, lead_id)
    THEN [out |-> Returns(LeadNotFound), proceed |-> FALSE, reads |-> 1, saw |-> "absent"]
  ELSE IF Truthy(DictGet(st[lead_id], "was_notified", FALSE))
    THEN [out |-> Returns(AlreadyNotified), proceed |-> FALSE, reads |-> 1, saw |-> "notified"]
  ELSE [out |-> Returns(None), proceed |-> TRUE, reads |-> 1, saw |-> "unnotified"]

\* ---- _send_notifications_to_lawyers ----
\* break in the place of continue: the loop ends at a recipient without a phone
next_recipient_stops_at_gap(i) ==
  IF i <= NumLawyers /\ lawyers[i].phone # "" THEN i ELSE 0

\* for lawyer in lawyers: if not lawyer_phone: continue
\* The first recipient at or after position i that has a phone, 0 when none is left.
next_recipient(i) ==
  LET rest == {j \in i..NumLawyers : lawyers[j].phone # ""}
  IN IF rest = {} THEN 0 ELSE CHOOSE j \in rest : \A k \in rest : j <= k

\* results.append(...) for the send to recipient i: its return value, or its exception
result_entry(i, sent) ==
  IF sent = "raise"
    THEN [lawyer |-> lawyers[i].name, phone |-> lawyers[i].phone, success |-> FALSE,
          error |-> "str(lawyer_error)"]
    ELSE [lawyer |-> lawyers[i].name, phone |-> lawyers[i].phone, success |-> (sent = "true")]

\* the counter incremented for every send that did not raise
count_success_unless_raised(n, sent) == IF sent # "raise" THEN n + 1 ELSE n

\* if success: successful_notifications += 1
count_success(n, sent) == IF sent = "true" THEN n + 1 ELSE n

\* success reported only when every configured recipient was reached
aggregate_success_when_all(lead_id, results, successful_notifications) ==
  [success |-> successful_notifications = Len(lawyers),
   notifications_sent |-> successful_notifications,
   total_lawyers |-> Len(lawyers),
   results |-> results,
   lead_id |-> lead_id,
   timestamp |-> Now]

\* total_lawyers counting the recipients tried, not those configured
aggregate_counts_attempted(lead_id, results, successful_notifications) ==
  [success |-> successful_notifications > 0,
   notifications_sent |-> successful_notifications,
   total_lawyers |-> Len(results),
   results |-> results,
   lead_id |-> lead_id,
   timestamp |-> Now]

\* lines 198-205: the aggregate the fan-out returns
aggregate(lead_id, results, successful_notifications) ==
  [success |-> successful_notifications > 0,
   notifications_sent |-> successful_notifications,
   total_lawyers |-> Len(lawyers),
   results |-> results,
   lead_id |-> lead_id,
   timestamp |-> Now]

\* lines 207-213: the except branch of the fan-out
FanOutError == [success |-> FALSE, notifications_sent |-> 0, error |-> "str(e)"]

\* ---- send_new_lead_notification, lines 94-107: commit and return ----
\* the lead marked only when every configured recipient was reached
should_mark_when_all_sent(notification_result) ==
  DictGet(notification_result, "notifications_sent", 0) >= Len(lawyers)

\* the update made whatever notifications_sent is
should_mark_always(notification_result) == TRUE

\* the update made whenever a send was tried
should_mark_when_attempted(notification_result) ==
  DictGet(notification_result, "results", <<>>) # <<>>

\* if notification_result.get("notifications_sent", 0) > 0
should_mark(notification_result) == DictGet(notification_result, "notifications_sent", 0) > 0

\* the update without notified_at
notified_fields_without_timestamp(notification_result) ==
  [was_notified |-> TRUE, notification_result |-> notification_result, updated_at |-> Now]

notified_fields(notification_result) ==
  [was_notified |-> TRUE, notified_at |-> Now,
   notification_result |-> notification_result, updated_at |-> Now]

\* the update outside a try/except of its own: its exception leaves lines 94-105
mark_notified_without_try(st, lead_id, notification_result, storageError) ==
  IF should_mark(notification_result)
    THEN LET tried == IF update_raises(st, lead_id, storageError)
                        THEN Raises
                        ELSE Returns(update(st, lead_id, notified_fields(notification_result)))
         IN [store |-> IF tried.exc THEN st ELSE tried.ret, exc |-> tried.exc,
             updates |-> 1, writes |-> IF tried.exc THEN 0 ELSE 1]
    ELSE [store |-> st, exc |-> FALSE, updates |-> 0, writes |-> 0]

\* The update is in its own try/except: an update that raises is logged only.
\* updates: calls of lead_ref.update; writes: those that changed the document;
\* exc: an exception leaves lines 94-105.
mark_notified(st, lead_id, notification_result, storageError) ==
  IF should_mark(notification_result)
    THEN LET tried == IF update_raises(st, lead_id, storageError)
                        THEN Raises
                        ELSE Returns(update(st, lead_id, notified_fields(notification_result)))
             done == try_except(tried, st)
         IN [store |-> IF done.exc THEN st ELSE done.ret, exc |-> done.exc,
             updates |-> 1, writes |-> IF tried.exc THEN 0 ELSE 1]
    ELSE [store |-> st, exc |-> FALSE, updates |-> 0, writes |-> 0]

\* ---- check_notification_status ----
CheckNotFound == [exists |-> FALSE, was_notified |-> FALSE, message |-> "Lead not found"]
CheckError == [exists |-> FALSE, was_notified |-> FALSE, error |-> "str(e)"]

check_body(st, lead_id, getRaises) ==
  IF getRaises THEN Raises
  ELSE IF ~exists(st, lead_id) THEN Returns(CheckNotFound)
  ELSE Returns([exists |-> TRUE,
                was_notified |-> DictGet(st[lead_id], "was_notified", FALSE),
                notified_at |-> DictGet(st[lead_id], "notified_at", None),
                notification_result |-> DictGet(st[lead_id], "notification_result", EmptyDict),
                lead_id |-> lead_id])

check_result(st, lead_id, getRaises) == try_except(check_body(st, lead_id, getRaises), CheckError)

\* ---- reset_notification_status ----
\* a reset that clears the timestamp and the result but not the flag
reset_fields_keeps_flag == [notified_at |-> None, notification_result |-> None, updated_at |-> Now]

reset_fields ==
  [was_notified |-> FALSE, notified_at |-> None, notification_result |-> None,
   updated_at |-> Now]

\* return True placed after the try/except: a failed update reports success
reset_body_reports_success(st, lead_id, storageError) ==
  IF update_raises(st, lead_id, storageError)
    THEN [out |-> Returns(TRUE), store |-> st, writes |-> 0]
    ELSE [out |-> Returns(TRUE), store |-> update(st, lead_id, reset_fields), writes |-> 1]

\* the try block: the update, then return True
reset_body(st, lead_id, storageError) ==
  IF update_raises(st, lead_id, storageError)
    THEN [out |-> Raises, store |-> st, writes |-> 0]
    ELSE [out |-> Returns(TRUE), store |-> update(st, lead_id, reset_fields), writes |-> 1]

reset_result(body) == try_except(body.out, FALSE)

\* ---- the state ----
\* A lead document this service has not written to yet: it holds none of the
\* notification fields (reset_notification_status writes them as False and None).
Fresh == EmptyDict

Init ==
  /\ enabled \in BOOLEAN
  /\ store = [l \in {"L1"} |-> Fresh]
  /\ suspended = EmptyBag
  /\ delivered = [l \in Leads |-> {}]
  /\ duplicated = [l \in Leads |-> {}]
  /\ last = NoCall
  /\ lead_data = EmptyDict
  /\ extracted = None
  /\ notification_message = None
  /\ request = EmptyDict
  /\ webhook_call = Idle

\* What a caller finds in the collection for lead_id.
lead_state(st, lead_id) ==
  IF ~exists(st, lead_id) THEN "absent"
  ELSE IF Truthy(DictGet(st[lead_id], "was_notified", FALSE)) THEN "notified"
  ELSE "unnotified"

\* The flag and the lead's state at the start of a send_new_lead_notification call.
began_with(lead_id) == [flag |-> enabled, lead |-> lead_state(store, lead_id)]

\* The record of a send_new_lead_notification call that returns: how it began,
\* what it returns (or that it raised), what its get showed, and the calls it
\* made: reads (lead_ref.get), sends (send_whatsapp_message), updates
\* (lead_ref.update), writes (updates that did not raise); changed: the
\* collection is not the same after the call's last step as before it;
\* attempts: the send_whatsapp_message calls in order, each with the index of
\* its recipient in lawyers and what the client answered.
dispatch_record(lead_id, began, out, g, results, attempts, m) ==
  [op |-> "dispatch", lead_id |-> lead_id, began |-> began,
   raised |-> out.exc, ret |-> out.ret,
   saw |-> g.saw, reads |-> g.reads, sends |-> Len(results), attempts |-> attempts,
   updates |-> m.updates, writes |-> m.writes, changed |-> (store' # store)]

NoMark == [updates |-> 0, writes |-> 0]
Proceeded == [saw |-> "unnotified", reads |-> 1]

\* lines 94-107 for a fan-out that has returned notification_result
commit_and_return(lead_id, began, notification_result, results, attempts, storageError) ==
  LET m == mark_notified(store, lead_id, notification_result, storageError)
      body == IF m.exc THEN Raises ELSE Returns(notification_result)
  IN /\ store' = m.store
     /\ last' = dispatch_record(lead_id, began, try_except(body, DispatchError), Proceeded,
                                results, attempts, m)

\* A send_new_lead_notification call, from its start to its first send (where
\* it suspends) or, when it makes no send, to its return.
send_new_lead_notification(lead_id, getRaises, lawyersRaise) ==
  LET g == guard(enabled, store, lead_id, getRaises)
      began == began_with(lead_id)
      first == next_recipient(1)
  IN IF ~g.proceed
       THEN /\ store' = store
            /\ last' = dispatch_record(lead_id, began, try_except(g.out, DispatchError), g,
                                       <<>>, <<>>, NoMark)
            /\ UNCHANGED <<enabled, suspended, delivered, duplicated>>
     ELSE IF lawyersRaise
       THEN /\ commit_and_return(lead_id, began, FanOutError, <<>>, <<>>, FALSE)
            /\ UNCHANGED <<enabled, suspended, delivered, duplicated>>
     ELSE IF first = 0
       THEN /\ commit_and_return(lead_id, began, aggregate(lead_id, <<>>, 0), <<>>, <<>>, FALSE)
            /\ UNCHANGED <<enabled, suspended, delivered, duplicated>>
     ELSE /\ BagCardinality(suspended) < MaxCalls
          /\ suspended' = suspended (+) SetToBag({[lead_id |-> lead_id, began |-> began,
                                                     idx |-> first, results |-> <<>>,
                                                     successful |-> 0,
                                                     attempts |-> <<>>]})
          /\ UNCHANGED <<enabled, store, delivered, duplicated, last>>

\* baileys_service.send_whatsapp_message returns to a suspended call (sent: "true",
\* "false" or "raise"); the call runs on to its next send or to its return.
send_whatsapp_message(call, sent, storageError) ==
  LET results == Append(call.results, result_entry(call.idx, sent))
      n == count_success(call.successful, sent)
      attempts == Append(call.attempts, [idx |-> call.idx, sent |-> sent])
      next == next_recipient(call.idx + 1)
      l == call.lead_id
  IN /\ call \in BagToSet(suspended)
     /\ IF sent = "true"
          THEN /\ delivered' = [delivered EXCEPT ![l] = @ \cup {call.idx}]
               /\ duplicated' = [duplicated EXCEPT ![l] = @ \cup ({call.idx} \cap delivered[l])]
          ELSE UNCHANGED <<delivered, duplicated>>
     /\ IF next # 0
          THEN /\ suspended' = (suspended (-) SetToBag({call})) (+)
                     SetToBag({[call EXCEPT !.idx = next, !.results = results, !.successful = n,
                                            !.attempts = attempts]})
               /\ UNCHANGED <<store, last>>
          ELSE /\ suspended' = suspended (-) SetToBag({call})
               /\ commit_and_return(l, call.began, aggregate(l, results, n), results,
                                    attempts, storageError)
     /\ UNCHANGED enabled

\* a check that stamps updated_at on the record it reads
check_notification_status_touching(lead_id, getRaises) ==
  LET out == check_result(store, lead_id, getRaises)
  IN /\ store' = IF exists(store, lead_id) /\ ~getRaises
                    THEN update(store, lead_id, [updated_at |-> Now])
                    ELSE store
     /\ UNCHANGED <<enabled, suspended, delivered, duplicated>>
     /\ last' = [op |-> "check", lead_id |-> lead_id,
                 began |-> [lead |-> lead_state(store, lead_id)], fault |-> getRaises,
                 raised |-> out.exc, ret |-> out.ret,
                 changed |-> (store' # store), sent |-> (delivered' # delivered)]

check_notification_status(lead_id, getRaises) ==
  LET out == check_result(store, lead_id, getRaises)
  IN /\ store' = store
     /\ UNCHANGED <<enabled, suspended, delivered, duplicated>>
     /\ last' = [op |-> "check", lead_id |-> lead_id,
                 began |-> [lead |-> lead_state(store, lead_id)], fault |-> getRaises,
                 raised |-> out.exc, ret |-> out.ret,
                 changed |-> (store' # store), sent |-> (delivered' # delivered)]

reset_notification_status(lead_id, storageError) ==
  LET body == reset_body(store, lead_id, storageError)
      out == reset_result(body)
  IN /\ store' = body.store
     /\ last' = [op |-> "reset", lead_id |-> lead_id,
                 began |-> [lead |-> lead_state(store, lead_id)],
                 fault |-> update_raises(store, lead_id, storageError),
                 raised |-> out.exc, ret |-> out.ret,
                 writes |-> body.writes, changed |-> (store' # store)]
     /\ delivered' = [delivered EXCEPT ![lead_id] = {}]
     /\ duplicated' = [duplicated EXCEPT ![lead_id] = {}]
     /\ UNCHANGED <<enabled, suspended>>

\* ---- the environment ----
\* ENABLE_WHATSAPP is changed
SetFlag ==
  /\ enabled' = ~enabled
  /\ UNCHANGED <<store, suspended, delivered, duplicated, last>>
  /\ UNCHANGED <<formatting, webhook>>

\* ---- specifications ----
Dispatch ==
  \E lead_id \in Leads, getRaises \in BOOLEAN, lawyersRaise \in BOOLEAN :
    send_new_lead_notification(lead_id, getRaises, lawyersRaise) /\ UNCHANGED <<formatting, webhook>>

SendReturns ==
  \E call \in BagToSet(suspended), sent \in {"true", "false", "raise"}, storageError \in BOOLEAN :
    send_whatsapp_message(call, sent, storageError) /\ UNCHANGED <<formatting, webhook>>

Check ==
  \E lead_id \in Leads, getRaises \in BOOLEAN :
    check_notification_status(lead_id, getRaises) /\ UNCHANGED <<formatting, webhook>>

Reset ==
  \E lead_id \in Leads, storageError \in BOOLEAN :
    reset_notification_status(lead_id, storageError) /\ UNCHANGED <<formatting, webhook>>

\* Calls arrive at any time: a call may start while others are suspended on a send.
Next == Dispatch \/ SendReturns \/ Check \/ Reset \/ SetFlag

Spec == Init /\ [][Next]_vars

\* Calls do not overlap: a call starts only when no call is suspended.
NoneSuspended == suspended = EmptyBag
SeqDispatch == NoneSuspended /\ Dispatch
SeqCheck == NoneSuspended /\ Check
SeqReset == NoneSuspended /\ Reset
SeqNext == SeqDispatch \/ SendReturns \/ SeqCheck \/ SeqReset \/ SetFlag

SeqSpec == Init /\ [][SeqNext]_vars

\* ---- lead_data: extraction (lines 66-85) and the alert text (lines 145-155) ----
\* Texts are strings; Len, SubSeq and \o are Python's len, slice and +.
\* The literals of the code are written without their accents (não as nao).
MaxAnswers == 2
SituationLimit == 200

Min(a, b) == IF a < b THEN a ELSE b

DigitChars == {"0", "1", "2", "3", "4", "5", "6", "7", "8", "9"}

\* str.isdigit: a non-empty text of digits only
isdigit(text) ==
  Len(text) > 0 /\ \A i \in 1..Len(text) : SubSeq(text, i, i) \in DigitChars

\* lines 68-71
Placeholders ==
  [lead_name |-> "Cliente nao identificado", lead_phone |-> "Nao informado",
   area |-> "Nao informada", situation |-> "Nao detalhada"]

\* the phone taken from any answer with id >= 4, digits or not
take_answer_any_phone(fields, answer) ==
  LET answer_id == DictGet(answer, "id", 0)
      answer_text == DictGet(answer, "answer", "")
  IN IF answer_id = 1 THEN [fields EXCEPT !.lead_name = answer_text]
     ELSE IF answer_id = 2 THEN [fields EXCEPT !.area = answer_text]
     ELSE IF answer_id = 3 THEN [fields EXCEPT !.situation = answer_text]
     ELSE IF answer_id >= 4 THEN [fields EXCEPT !.lead_phone = answer_text]
     ELSE fields

\* lines 74-85: the body of "for answer in answers"
take_answer(fields, answer) ==
  LET answer_id == DictGet(answer, "id", 0)
      answer_text == DictGet(answer, "answer", "")
  IN IF answer_id = 1 THEN [fields EXCEPT !.lead_name = answer_text]
     ELSE IF answer_id = 2 THEN [fields EXCEPT !.area = answer_text]
     ELSE IF answer_id = 3 THEN [fields EXCEPT !.situation = answer_text]
     ELSE IF answer_id >= 4 /\ isdigit(answer_text)
       THEN [fields EXCEPT !.lead_phone = answer_text]
     ELSE fields

\* the loop of line 73 from position i on
RECURSIVE extract_from(_, _, _)
extract_from(fields, answers, i) ==
  IF i > Len(answers) THEN fields
  ELSE extract_from(take_answer(fields, answers[i]), answers, i + 1)

\* lines 66-85: answers = lead_data.get("answers", []), the placeholders, the loop
extract(data) == extract_from(Placeholders, DictGet(data, "answers", <<>>), 1)

\* the ellipsis added from the limit on, not only beyond it
truncated_from_limit(situation) ==
  SubSeq(situation, 1, Min(SituationLimit, Len(situation)))
    \o (IF Len(situation) >= SituationLimit THEN "..." ELSE "")

\* line 150: {situation[:200]}{'...' if len(situation) > 200 else ''}
truncated(situation) ==
  SubSeq(situation, 1, Min(SituationLimit, Len(situation)))
    \o (IF Len(situation) > SituationLimit THEN "..." ELSE "")

\* datetime.now().strftime('%d/%m/%Y às %H:%M')
strftime == "%d/%m/%Y as %H:%M"

\* lines 145-155: the f-string, one element for each of its lines (without the
\* emoji that opens a line)
message_lines(lead_id, lead_name, lead_phone, area, situation) ==
  << "*Novo Cliente Recebido!*",
     "",
     "*Nome:* " \o lead_name,
     "*Telefone:* " \o lead_phone,
     "*Area:* " \o area,
     "*Situacao:* " \o truncated(situation),
     "",
     "*Lead ID:* " \o lead_id,
     "*Recebido em:* " \o strftime,
     "",
     "_Mensagem enviada automaticamente pelo sistema de captacao de leads._" >>

\* A text of n characters: Pattern over and over, cut at n.
Pattern == "abcdefghij"

RECURSIVE Fill(_)
Fill(n) ==
  IF n <= Len(Pattern) THEN SubSeq(Pattern, 1, n) ELSE Pattern \o Fill(n - Len(Pattern))

\* The answer texts tried: empty, a name, digits, digits with another
\* character, and texts of SituationLimit and SituationLimit + 1 characters.
Texts == {"", "Maria", "11999990000", "11-9999", Fill(SituationLimit), Fill(SituationLimit + 1)}

\* The answers tried: every id from 1 to 5 with every text, and answers with
\* no id or no answer key.
Answers ==
  [id : 1..5, answer : Texts] \cup [answer : {"Maria", "11999990000"}] \cup [id : {1, 4}]

AnswerLists == UNION {[1..n -> Answers] : n \in 0..MaxAnswers}

\* lead_data with its answers, or without the key
LeadData == {[answers |-> a] : a \in AnswerLists} \cup {EmptyDict}

FormatInit ==
  /\ enabled = TRUE
  /\ store = [l \in {"L1"} |-> Fresh]
  /\ suspended = EmptyBag
  /\ delivered = [l \in Leads |-> {}]
  /\ duplicated = [l \in Leads |-> {}]
  /\ last = NoCall
  /\ lead_data \in LeadData
  /\ extracted = None
  /\ notification_message = None
  /\ request = EmptyDict
  /\ webhook_call = Idle

\* lines 66-85 of send_new_lead_notification
extract_answers ==
  /\ extracted = None
  /\ extracted' = extract(lead_data)
  /\ UNCHANGED <<enabled, store, suspended, delivered, duplicated, last,
                 lead_data, notification_message>>
  /\ UNCHANGED webhook

\* lines 145-155 of _send_notifications_to_lawyers, called with the extracted fields
create_notification_message ==
  /\ extracted # None
  /\ notification_message = None
  /\ notification_message' = message_lines("L1", extracted.lead_name, extracted.lead_phone,
                                           extracted.area, extracted.situation)
  /\ UNCHANGED <<enabled, store, suspended, delivered, duplicated, last,
                 lead_data, extracted>>
  /\ UNCHANGED webhook

FormatNext == extract_answers \/ create_notification_message

\* The extraction and the message for every lead_data of LeadData.
FormatSpec == FormatInit /\ [][FormatNext]_vars

\* ---- whatsapp_webhook (app/routes/whatsapp.py, lines 28-91) ----
\* A JSON string s is Str(s) and JSON null is None, so that a value can be
\* asked whether it is a string.  Literals are written without accents.
Str(s) == [str |-> s]
is_str(v) == "str" \in DOMAIN v

\* Python's "not v" for a string or None
falsy(v) == v = None \/ v = Str("")

\* a body that request.json() cannot parse
NotJson == [not_json |-> TRUE]

JidSuffix == "@s.whatsapp.net"

\* str.replace(old, ''): text without the occurrences of old
RECURSIVE remove(_, _)
remove(text, old) ==
  IF Len(text) < Len(old) THEN text
  ELSE IF SubSeq(text, 1, Len(old)) = old
    THEN remove(SubSeq(text, Len(old) + 1, Len(text)), old)
  ELSE SubSeq(text, 1, 1) \o remove(SubSeq(text, 2, Len(text)), old)

\* line 42, second argument of payload.get, evaluated whether or not the key
\* is there: phone_number.replace exists only on a string
default_session_id(phone_number) ==
  IF is_str(phone_number)
    THEN Returns(Str("whatsapp_" \o remove(phone_number.str, JidSuffix)))
    ELSE Raises

\* line 46
InvalidPayload == [status |-> "error", message |-> "Invalid payload"]

\* lines 87-91
WebhookError ==
  [status |-> "error", message |-> "str(e)",
   response |-> "Desculpe, ocorreu um erro interno. Nossa equipe foi notificada e entrara em contato em breve."]

\* line 81
FallbackText == "Obrigado pela sua mensagem. Nossa equipe entrara em contato em breve."

\* lines 35-48: from the body to the call of the orchestrator (forward) or to
\* a return or an exception before it
before_process_message(body) ==
  IF body = NotJson THEN [out |-> Raises, forward |-> FALSE]
  ELSE
    LET message_text == DictGet(body, "message", Str(""))
        phone_number == DictGet(body, "from", Str(""))
        message_id == DictGet(body, "messageId", Str(""))
        fallback_id == default_session_id(phone_number)
    IN IF fallback_id.exc THEN [out |-> Raises, forward |-> FALSE]
       ELSE IF falsy(message_text) \/ falsy(phone_number)
         THEN [out |-> Returns(InvalidPayload), forward |-> FALSE]
       ELSE [out |-> Returns(None), forward |-> TRUE,
             message_text |-> message_text, phone_number |-> phone_number,
             message_id |-> message_id,
             session_id |-> DictGet(body, "sessionId", fallback_id.ret)]

\* lines 59-83: from the orchestrator's answer (a dict, or an exception) to the return
after_process_message(call, answer) ==
  IF answer.exc THEN Raises
  ELSE
    LET response == answer.ret
        ai_response == DictGet(response, "response", Str(""))
    IN IF ~falsy(ai_response)
         THEN Returns([status |-> "success", message_id |-> call.message_id,
                       session_id |-> call.session_id, response |-> ai_response,
                       response_type |-> DictGet(response, "response_type", Str("ai_whatsapp")),
                       message_count |-> DictGet(response, "message_count", 1)])
         ELSE Returns([status |-> "success", message_id |-> call.message_id,
                       session_id |-> call.session_id, response |-> Str(FallbackText),
                       response_type |-> Str("fallback")])

\* The bodies posted: unparsable, or an object with each of message, from,
\* messageId and sessionId missing or holding one of the values below.
FieldValues ==
  [message |-> {Str(""), None, Str("Preciso de um advogado")},
   from |-> {Str(""), None, Str("5511999990000@s.whatsapp.net"), Str("5511999990000")},
   messageId |-> {Str("M1")},
   sessionId |-> {Str("S1")}]

Requests ==
  {NotJson} \cup
  UNION {{body \in [keys -> UNION {FieldValues[k] : k \in keys}] :
            \A k \in keys : body[k] \in FieldValues[k]} : keys \in SUBSET DOMAIN FieldValues}

\* What intelligent_orchestrator.process_message may do: raise, or return a
\* dict with or without a reply.
OrchestratorOutcomes ==
  {Raises, Returns(EmptyDict), Returns([response |-> Str("")]), Returns([response |-> None]),
   Returns([response |-> Str("Ola, como posso ajudar?")]),
   Returns([response |-> Str("Ola, como posso ajudar?"), response_type |-> Str("ai"),
            message_count |-> 2])}

WebhookInit ==
  /\ enabled = TRUE
  /\ store = [l \in {"L1"} |-> Fresh]
  /\ suspended = EmptyBag
  /\ delivered = [l \in Leads |-> {}]
  /\ duplicated = [l \in Leads |-> {}]
  /\ last = NoCall
  /\ lead_data = EmptyDict
  /\ extracted = None
  /\ notification_message = None
  /\ request \in Requests
  /\ webhook_call = Idle

\* the rest of the model, which whatsapp_webhook does not touch
dispatcher == <<enabled, store, suspended, delivered, duplicated, last, formatting>>

\* whatsapp_webhook from its start to its return or to its await on
\* process_message; calls: the calls of process_message made so far
whatsapp_webhook ==
  LET began == before_process_message(request)
      out == try_except(began.out, WebhookError)
  IN /\ webhook_call = Idle
     /\ webhook_call' =
          IF began.forward
            THEN [pc |-> "awaiting", calls |-> 1, message_id |-> began.message_id,
                  session_id |-> began.session_id]
            ELSE [pc |-> "returned", calls |-> 0, raised |-> out.exc, ret |-> out.ret]
     /\ UNCHANGED <<request, dispatcher>>

\* process_message returns or raises; whatsapp_webhook runs on to its return
process_message(answer) ==
  LET out == try_except(after_process_message(webhook_call, answer), WebhookError)
  IN /\ webhook_call.pc = "awaiting"
     /\ webhook_call' = [pc |-> "returned", calls |-> webhook_call.calls,
                         answer |-> answer, raised |-> out.exc, ret |-> out.ret]
     /\ UNCHANGED <<request, dispatcher>>

ProcessMessageReturns == \E answer \in OrchestratorOutcomes : process_message(answer)

WebhookNext == whatsapp_webhook \/ ProcessMessageReturns

\* One POST to /whatsapp/webhook, for every body of Requests.
WebhookSpec == WebhookInit /\ [][WebhookNext]_vars

\* ---- properties ----
Success(ret) == DictGet(ret, "success", None)
Reason(ret) == DictGet(ret, "reason", "")
NotificationsSent(ret) == DictGet(ret, "notifications_sent", 0)

\* a send_new_lead_notification call has just returned, and its get (if any) did not raise
Dispatched == last.op = "dispatch" /\ last.saw # "error"

\* no send, no update, and the collection as it was
NoEffect == last.sends = 0 /\ last.updates = 0 /\ ~last.changed

\* C1: a dispatch that reads was_notified = true returns success = false with
\* reason "already_notified", makes no send and leaves the lead record as it was.
C1_AlreadyNotified ==
  (Dispatched /\ last.began.flag /\ last.began.lead = "notified") =>
    /\ ~last.raised
    /\ Success(last.ret) = FALSE
    /\ Reason(last.ret) = "already_notified"
    /\ NoEffect
    /\ lead_state(store, last.lead_id) = "notified"

C1_Witness ==
  /\ Dispatched /\ last.began.flag /\ last.began.lead = "notified"
  /\ Reason(last.ret) = "already_notified"

\* C5 as stated: with the flag disabled a dispatch returns success = false with
\* reason "disabled", whatever the lead's state, with no read, no write, no send.
C5_Original ==
  (last.op = "dispatch" /\ ~last.began.flag) =>
    /\ ~last.raised
    /\ Success(last.ret) = FALSE
    /\ Reason(last.ret) = "disabled"
    /\ last.reads = 0
    /\ NoEffect

\* C5 amended: with the flag disabled a dispatch returns success = false with
\* reason "whatsapp_disabled", whatever the lead's state (absent, not notified,
\* notified), with no store read, no store write and no send.
C5_Disabled ==
  (last.op = "dispatch" /\ ~last.began.flag) =>
    /\ ~last.raised
    /\ Success(last.ret) = FALSE
    /\ Reason(last.ret) = "whatsapp_disabled"
    /\ last.reads = 0
    /\ NoEffect

C5_Witness ==
  /\ last.op = "dispatch" /\ ~last.began.flag /\ last.began.lead = "notified"
  /\ Reason(last.ret) = "whatsapp_disabled"

\* C6 as stated: with the flag enabled a dispatch for a lead id without a record
\* returns success = false with reason "not_found", sends nothing, creates no record.
C6_Original ==
  (Dispatched /\ last.began.flag /\ last.began.lead = "absent") =>
    /\ ~last.raised
    /\ Success(last.ret) = FALSE
    /\ Reason(last.ret) = "not_found"
    /\ NoEffect
    /\ ~exists(store, last.lead_id)

\* C6 amended: with the flag enabled (and a get that does not raise) a dispatch
\* for a lead id without a record returns success = false with reason
\* "lead_not_found", sends nothing and creates no record.
C6_NotFound ==
  (Dispatched /\ last.began.flag /\ last.began.lead = "absent") =>
    /\ ~last.raised
    /\ Success(last.ret) = FALSE
    /\ Reason(last.ret) = "lead_not_found"
    /\ NoEffect
    /\ ~exists(store, last.lead_id)

C6_Witness ==
  /\ Dispatched /\ last.began.flag /\ last.began.lead = "absent"
  /\ Reason(last.ret) = "lead_not_found"

\* the per-recipient entries of a fan-out result
Results(ret) == DictGet(ret, "results", <<>>)
OneSucceeded(ret) == \E i \in DOMAIN Results(ret) : Results(ret)[i].success = TRUE
AllFailed(ret) == \A i \in DOMAIN Results(ret) : Results(ret)[i].success = FALSE

\* the call went past the guard into the fan-out
ReachedFanOut == Dispatched /\ last.began.flag /\ last.began.lead = "unnotified"

\* the update of lines 97-102 was called and raised
UpdateRaised == last.updates = 1 /\ last.writes = 0

\* C2 as stated: over non-overlapping dispatch calls for a lead with no reset
\* call in between, no recipient's send returns true more than once.
C2_OncePerLead == \A l \in Leads : duplicated[l] = {}

\* the lead's record is marked, and a check (whose get does not raise) says so
Marked(l) ==
  /\ exists(store, l)
  /\ DictGet(store[l], "was_notified", FALSE) = TRUE
  /\ DictGet(store[l], "notified_at", None) # None
  /\ LET c == check_result(store, l, FALSE).ret
     IN /\ DictGet(c, "exists", FALSE) = TRUE
        /\ DictGet(c, "was_notified", FALSE) = TRUE
        /\ DictGet(c, "notified_at", None) = store[l].notified_at

C4_AllFailed ==
  (ReachedFanOut /\ AllFailed(last.ret)) =>
    /\ ~last.raised
    /\ Success(last.ret) = FALSE
    /\ NotificationsSent(last.ret) = 0
    /\ last.updates = 0 /\ ~last.changed
    /\ lead_state(store, last.lead_id) = "unnotified"

C4_Witness ==
  /\ ReachedFanOut /\ AllFailed(last.ret) /\ last.sends = 2
  /\ "error" \in DOMAIN Results(last.ret)[1]
  /\ "error" \notin DOMAIN Results(last.ret)[2]
  /\ Success(last.ret) = FALSE

\* what a check made right after the last call returns (get: its get raises)
CheckNow(get) == check_result(store, last.lead_id, get).ret

\* C7 as stated: whatever the lead's state, a reset directly followed by a
\* check yields was_notified = false.
C7_Original == (last.op = "reset") => DictGet(CheckNow(FALSE), "was_notified", None) = FALSE

\* C7 amended: a reset that returns true, or a reset of a lead that was absent
\* or not notified, directly followed by a check yields was_notified = false.
C7_ResetThenCheck ==
  (last.op = "reset" /\ (last.ret = TRUE \/ last.began.lead # "notified")) =>
    \A get \in BOOLEAN : DictGet(CheckNow(get), "was_notified", None) = FALSE

C7_Witness ==
  /\ last.op = "reset" /\ last.began.lead = "notified" /\ last.ret = TRUE
  /\ CheckNow(FALSE).exists = TRUE /\ CheckNow(FALSE).was_notified = FALSE

\* C8: in every reachable state, under any interleaving of dispatch, reset and
\* check calls, a lead with was_notified = true has notified_at and
\* notification_result set (not missing, not None).
C8_NotifiedHasResult ==
  \A l \in DOMAIN store :
    Truthy(DictGet(store[l], "was_notified", FALSE)) =>
      /\ DictGet(store[l], "notified_at", None) # None
      /\ DictGet(store[l], "notification_result", None) # None

\* a lead notified again after a reset, while another dispatch is suspended
C8_Witness ==
  /\ lead_state(store, "L1") = "notified"
  /\ suspended # EmptyBag
  /\ last.op = "dispatch" /\ last.writes = 1

\* C9: no operation raises to its caller; every failure of the store, of the
\* recipient configuration or of the messaging client ends in a structured
\* result: a dict with success = false (dispatch) or exists = false (check), or
\* the boolean false (reset).
C9_NeverRaises ==
  /\ last.op # "none" => ~last.raised
  /\ last.op = "dispatch" =>
       /\ Success(last.ret) \in BOOLEAN
       /\ (last.saw = "error" \/ (ReachedFanOut /\ AllFailed(last.ret))) =>
            Success(last.ret) = FALSE
  /\ last.op = "check" =>
       /\ DictGet(last.ret, "exists", None) \in BOOLEAN
       /\ last.fault => DictGet(last.ret, "exists", None) = FALSE
  /\ last.op = "reset" =>
       /\ last.ret \in BOOLEAN
       /\ last.fault => last.ret = FALSE

C9_Witness ==
  /\ last.op = "dispatch" /\ last.saw = "error" /\ ~last.raised
  /\ Reason(last.ret) = "error"

\* C10: in every result of send_new_lead_notification, success is true exactly
\* when notifications_sent (0 when the field is missing) is greater than 0.
C10_SuccessIffSent ==
  (last.op = "dispatch") => ((Success(last.ret) = TRUE) <=> (NotificationsSent(last.ret) > 0))

C10_Witness ==
  /\ last.op = "dispatch" /\ Success(last.ret) = TRUE
  /\ NotificationsSent(last.ret) = 1 /\ last.sends = 2

\* a dispatch has just returned after calling send_whatsapp_message at least once
FannedOut == ReachedFanOut /\ last.attempts # <<>>

\* the sends of the returned dispatch that the client answered with true
SentTrue == Cardinality({i \in DOMAIN last.attempts : last.attempts[i].sent = "true"})

\* C11 as stated: the result of a fan-out has notifications_sent equal to the
\* number of sends that returned true and total_recipients equal to the number
\* of configured recipients, and with one send or more succeeding the store is
\* updated with was_notified = true.
C11_Original ==
  FannedOut =>
    /\ NotificationsSent(last.ret) = SentTrue
    /\ DictGet(last.ret, "total_recipients", 0) = Len(lawyers)
    /\ SentTrue > 0 => (last.writes = 1 /\ lead_state(store, last.lead_id) = "notified")

\* C11 amended: the result of a fan-out has notifications_sent equal to the
\* number of sends that returned true and total_lawyers (there is no
\* total_recipients) equal to the number of configured recipients, those without
\* a phone included; with one send or more succeeding the store is updated with
\* was_notified = true unless the update raises.
C11_FanOutCounts ==
  FannedOut =>
    /\ NotificationsSent(last.ret) = SentTrue
    /\ DictGet(last.ret, "total_lawyers", 0) = Len(lawyers)
    /\ "total_recipients" \notin DOMAIN last.ret
    /\ Success(last.ret) = (SentTrue > 0)
    /\ (SentTrue > 0 /\ ~UpdateRaised) =>
         (last.writes = 1 /\ lead_state(store, last.lead_id) = "notified")

C11_Witness ==
  /\ FannedOut
  /\ Len(last.attempts) = 2 /\ SentTrue = 1
  /\ \E i \in DOMAIN last.attempts : last.attempts[i].sent = "false"
  /\ Success(last.ret) = TRUE /\ NotificationsSent(last.ret) = 1
  /\ DictGet(last.ret, "total_lawyers", 0) > Len(last.attempts)
  /\ last.writes = 1 /\ lead_state(store, last.lead_id) = "notified"

\* C12: when one send or more succeeded and the marking update raises, the
\* dispatch does not raise and still returns the fan-out result, with
\* success = true and notifications_sent > 0, and the lead's was_notified stays
\* false (calls that do not overlap).
C12_UpdateFailureSwallowed ==
  (FannedOut /\ SentTrue > 0 /\ UpdateRaised) =>
    /\ ~last.raised
    /\ Success(last.ret) = TRUE
    /\ NotificationsSent(last.ret) = SentTrue
    /\ Len(Results(last.ret)) = Len(last.attempts)
    /\ ~last.changed
    /\ lead_state(store, last.lead_id) = "unnotified"
    /\ CheckNow(FALSE).was_notified = FALSE

C12_Witness ==
  /\ FannedOut /\ SentTrue > 0 /\ UpdateRaised
  /\ Success(last.ret) = TRUE
  /\ lead_state(store, last.lead_id) = "unnotified"

\* the calls suspended in a send, each separately
InFlight == BagToSet(suspended)

\* c and d are two suspended calls (two copies of one record, or two records)
TwoCalls(c, d) == c # d \/ CopiesIn(c, suspended) >= 2

\* call c was answered true by the client for the recipient at idx
HasSentTo(c, idx) ==
  \E i \in DOMAIN c.attempts : c.attempts[i].idx = idx /\ c.attempts[i].sent = "true"

\* C13: the duplicate guard is a read at the start of the call and nothing
\* more: every call in flight, and every call that wrote, acted on the
\* was_notified = false it read at its start, whatever the record says since.
\* So two concurrent calls for one unnotified lead can both pass the guard
\* before either commits and both send to the same recipient (C13_Witness).
C13_GuardIsOnlyARead ==
  /\ \A c \in InFlight : c.began.flag /\ c.began.lead = "unnotified"
  /\ (last.op = "dispatch" /\ last.updates = 1) => last.began.lead = "unnotified"

C13_Witness ==
  \E c, d \in InFlight :
    /\ TwoCalls(c, d)
    /\ c.lead_id = d.lead_id
    /\ c.began.lead = "unnotified" /\ d.began.lead = "unnotified"
    /\ lead_state(store, c.lead_id) = "unnotified"
    /\ \E idx \in DOMAIN lawyers : HasSentTo(c, idx) /\ HasSentTo(d, idx)
    /\ duplicated[c.lead_id] # {}

\* a dispatch has just returned whose fan-out got the recipients from the configuration
ListObtained == ReachedFanOut /\ last.ret # FanOutError

\* the number of sends that the attempts a hold for the recipient at idx
AttemptsFor(a, idx) == Cardinality({i \in DOMAIN a : a[i].idx = idx})

\* C14: in a dispatch that reaches fan-out every configured recipient with a
\* non-empty phone gets exactly one send attempt (and one without a phone none),
\* whatever the others' sends returned or raised, and the store update happens
\* only after all attempts have completed: a call still in flight has tried
\* each recipient before its position once and none after, and only a call that
\* has tried them all updates.
C14_OneAttemptEach ==
  /\ ListObtained =>
       \A j \in DOMAIN lawyers :
         AttemptsFor(last.attempts, j) = IF lawyers[j].phone # "" THEN 1 ELSE 0
  /\ (last.op = "dispatch" /\ last.updates > 0) =>
       \A j \in DOMAIN lawyers : lawyers[j].phone # "" => AttemptsFor(last.attempts, j) = 1
  /\ \A c \in InFlight :
       /\ lawyers[c.idx].phone # ""
       /\ \A j \in DOMAIN lawyers :
            AttemptsFor(c.attempts, j) = IF j < c.idx /\ lawyers[j].phone # "" THEN 1 ELSE 0

C14_Witness ==
  /\ ListObtained
  /\ Len(last.attempts) = 2
  /\ last.attempts[1].sent = "raise" /\ last.attempts[2].sent = "true"
  /\ last.attempts[1].idx # last.attempts[2].idx
  /\ last.updates = 1 /\ last.writes = 1

\* what a returned dispatch did to the mark: it wrote only when it found the
\* lead unmarked and had a send succeed, and then left it marked; finding the
\* lead marked it made no update at all
C15_LastDispatch ==
  last.op = "dispatch" =>
    /\ last.writes = 1 =>
         /\ last.began.flag /\ last.began.lead = "unnotified"
         /\ SentTrue > 0
         /\ lead_state(store, last.lead_id) = "notified"
    /\ last.began.lead = "notified" =>
         (last.updates = 0 /\ last.writes = 0 /\ ~last.changed)
    /\ lead_state(store, last.lead_id) = "notified" =>
         (last.began.lead = "notified" \/ last.writes = 1)

\* a step that changes the record of a marked lead is a reset's
C15_OnlyResetRewrites ==
  \A l \in DOMAIN store :
    (lead_state(store, l) = "notified" /\ store'[l] # store[l]) => last'.op = "reset"

\* C15: over dispatch calls for one lead that do not overlap, with no reset in
\* between, the update setting was_notified = true is performed at most once,
\* by the first dispatch with a successful send and a successful update, and
\* every later dispatch performs no store write: once the lead is marked only a
\* reset changes its record.
C15_MarkedOnce == []C15_LastDispatch /\ [][C15_OnlyResetRewrites]_vars

C15_Witness ==
  /\ last.op = "dispatch" /\ last.began.lead = "notified"
  /\ last.updates = 0 /\ ~last.changed
  /\ lead_state(store, last.lead_id) = "notified"
  /\ delivered[last.lead_id] # {}

\* C16: check_notification_status is a pure read: for every lead_id and every
\* store state the store is the same after the call as before and no send is
\* made; for an existing lead (its read succeeding) it reports exists = true
\* and the stored was_notified, for an absent lead exists = false and
\* was_notified = false.
C16_CheckIsPureRead ==
  last.op = "check" =>
    /\ ~last.changed /\ ~last.sent /\ ~last.raised
    /\ lead_state(store, last.lead_id) = last.began.lead
    /\ (~last.fault /\ last.began.lead # "absent") =>
         /\ DictGet(last.ret, "exists", None) = TRUE
         /\ DictGet(last.ret, "was_notified", None) =
              DictGet(store[last.lead_id], "was_notified", FALSE)
         /\ DictGet(last.ret, "was_notified", None) = (last.began.lead = "notified")
    /\ last.began.lead = "absent" =>
         /\ DictGet(last.ret, "exists", None) = FALSE
         /\ DictGet(last.ret, "was_notified", None) = FALSE

C16_Witness ==
  /\ last.op = "check" /\ ~last.fault /\ last.began.lead = "notified"
  /\ DictGet(last.ret, "was_notified", None) = TRUE
  /\ ~last.changed
  /\ suspended # EmptyBag

\* the record of lead l holds key with value v
Holds(l, key, v) == l \in DOMAIN store /\ key \in DOMAIN store[l] /\ store[l][key] = v

\* C17: reset_notification_status returns true and sets was_notified = false,
\* notified_at = null and notification_result = null in one update when the
\* store accepts it; when the update fails, as for a lead that does not exist,
\* it returns false, does not raise, and leaves the store unchanged.
C17_Reset ==
  last.op = "reset" =>
    /\ ~last.raised
    /\ last.began.lead = "absent" => last.fault
    /\ ~last.fault =>
         /\ last.ret = TRUE
         /\ last.writes = 1
         /\ Holds(last.lead_id, "was_notified", FALSE)
         /\ Holds(last.lead_id, "notified_at", None)
         /\ Holds(last.lead_id, "notification_result", None)
    /\ last.fault =>
         /\ last.ret = FALSE
         /\ last.writes = 0
         /\ ~last.changed
         /\ lead_state(store, last.lead_id) = last.began.lead

C17_Witness ==
  /\ last.op = "reset" /\ last.ret = TRUE /\ last.began.lead = "notified"
  /\ Holds(last.lead_id, "notified_at", None)

\* a reset of a lead that does not exist
C17_WitnessAbsent ==
  last.op = "reset" /\ last.ret = FALSE /\ last.began.lead = "absent"

\* the reasons of the results that end a dispatch before the fan-out, or in the except branch
EarlyReasons == {"whatsapp_disabled", "lead_not_found", "already_notified", "error"}

\* what a returned dispatch did to the store: one update at most, made only
\* on a fan-out result with notifications_sent > 0; none, and the record as it
\* was, on every other result
C20_LastDispatch ==
  last.op = "dispatch" =>
    /\ last.updates <= 1 /\ last.writes <= last.updates
    /\ last.changed => last.writes = 1
    /\ last.updates = 1 =>
         /\ ListObtained
         /\ SentTrue > 0
         /\ NotificationsSent(last.ret) > 0
    /\ (Reason(last.ret) \in EarlyReasons \/ NotificationsSent(last.ret) = 0) =>
         (last.updates = 0 /\ last.writes = 0 /\ ~last.changed)

\* the steps of a call before its return (the sends it awaits) write nothing:
\* the store changes only in the step in which a dispatch or a reset returns
C20_WritesOnlyOnReturn ==
  store' # store => (last'.op \in {"dispatch", "reset"} /\ last'.changed)

\* C20: a dispatch writes to the store at most once, and only after the fan-out
\* returned notifications_sent > 0; every call that returns disabled, not
\* found, already notified, an error, or a fan-out result with zero successes
\* leaves the lead record exactly as it was.
C20_WriteOnlyAfterSuccess == []C20_LastDispatch /\ [][C20_WritesOnlyOnReturn]_vars

C20_Witness ==
  /\ ListObtained /\ Len(last.attempts) = 2 /\ SentTrue = 0
  /\ NotificationsSent(last.ret) = 0
  /\ last.updates = 0 /\ ~last.changed
  /\ lead_state(store, last.lead_id) = "unnotified"

\* the alert text has been made from the extracted fields
Formatted == notification_message # None

\* what follows the label on line n of the alert
Shown(n, label) ==
  SubSeq(notification_message[n], Len(label) + 1, Len(notification_message[n]))

ShownSituation == Shown(6, "*Situacao:* ")

\* C18: in the alert a situation text longer than 200 characters appears as its
\* first 200 characters followed by "...", and one of 200 characters or fewer
\* appears whole with no ellipsis.
C18_Truncation ==
  Formatted =>
    LET situation == extracted.situation
    IN /\ SubSeq(notification_message[6], 1, Len("*Situacao:* ")) = "*Situacao:* "
       /\ Len(situation) > 200 =>
            /\ Len(ShownSituation) = 203
            /\ SubSeq(ShownSituation, 1, 200) = SubSeq(situation, 1, 200)
            /\ SubSeq(ShownSituation, 201, 203) = "..."
       /\ Len(situation) <= 200 => ShownSituation = situation

C18_Witness ==
  /\ Formatted
  /\ Len(extracted.situation) = 201
  /\ Len(ShownSituation) = 203

\* a situation of exactly 200 characters, shown whole
C18_WitnessAtLimit ==
  /\ Formatted
  /\ Len(extracted.situation) = 200
  /\ ShownSituation = extracted.situation

\* the fields have been extracted from lead_data
Extracted == extracted # None

\* the answers of lead_data (none when the key is missing), the id of an
\* answer (0 when missing) and its text ("" when missing)
GivenAnswers == DictGet(lead_data, "answers", <<>>)
IdOf(answer) == DictGet(answer, "id", 0)
TextOf(answer) == DictGet(answer, "answer", "")

\* a non-empty text of digits only
AllDigits(text) ==
  text # "" /\ \A i \in 1..Len(text) : SubSeq(text, i, i) \in DigitChars

\* the text of the last of the given answers at the positions hits, the
\* placeholder when there is none
LastText(hits, placeholder) ==
  IF hits = {} THEN placeholder
  ELSE TextOf(GivenAnswers[CHOOSE i \in hits : \A j \in hits : j <= i])

WithId(n) == {i \in DOMAIN GivenAnswers : IdOf(GivenAnswers[i]) = n}

PhoneAnswers ==
  {i \in DOMAIN GivenAnswers :
     IdOf(GivenAnswers[i]) >= 4 /\ AllDigits(TextOf(GivenAnswers[i]))}

\* C19: for every answers sequence, the empty one included, extraction gives
\* name, area and situation the text of the last answer with id 1, 2 and 3,
\* and phone the text of the last answer with id >= 4 whose text is all digits;
\* a field with no such answer gets its placeholder string; the extraction
\* always yields the four fields as texts, so it never makes the dispatch fail.
C19_Extraction ==
  Extracted =>
    /\ DOMAIN extracted = {"lead_name", "lead_phone", "area", "situation"}
    /\ extracted.lead_name = LastText(WithId(1), "Cliente nao identificado")
    /\ extracted.area = LastText(WithId(2), "Nao informada")
    /\ extracted.situation = LastText(WithId(3), "Nao detalhada")
    /\ extracted.lead_phone = LastText(PhoneAnswers, "Nao informado")

C19_Witness ==
  /\ Extracted
  /\ Len(GivenAnswers) = 2
  /\ IdOf(GivenAnswers[1]) = 4 /\ IdOf(GivenAnswers[2]) = 5
  /\ AllDigits(TextOf(GivenAnswers[1])) /\ ~AllDigits(TextOf(GivenAnswers[2]))
  /\ extracted.lead_phone = TextOf(GivenAnswers[1])
  /\ extracted.lead_name = "Cliente nao identificado"

\* no answers at all: every field is its placeholder
C19_WitnessEmpty ==
  Extracted /\ GivenAnswers = <<>> /\ extracted = Placeholders

\* two answers with id 1: the name is the text of the second
C19_WitnessLast ==
  /\ Extracted /\ Len(GivenAnswers) = 2
  /\ IdOf(GivenAnswers[1]) = 1 /\ IdOf(GivenAnswers[2]) = 1
  /\ TextOf(GivenAnswers[1]) # TextOf(GivenAnswers[2])
  /\ extracted.lead_name = TextOf(GivenAnswers[2])

\* whatsapp_webhook has returned (or raised)
Returned == webhook_call.pc = "returned"

\* field key of the posted object is missing or empty (null or "")
MissingOrEmpty(key) ==
  key \notin DOMAIN request \/ request[key] = None \/ request[key] = Str("")

\* the reply of the orchestrator, "" when it gave none
Reply == DictGet(webhook_call.answer.ret, "response", Str(""))

\* C21: whatsapp_webhook never raises; for a payload whose message or from
\* field is missing or empty it returns status "error" with "Invalid payload"
\* and never calls the orchestrator; otherwise it calls the orchestrator exactly
\* once and returns status "success" with a non-empty response (the
\* orchestrator's reply, or the fixed fallback text when the reply is empty),
\* and if the orchestrator raises it returns status "error".
C21_Webhook ==
  /\ webhook_call.pc = "awaiting" =>
       (webhook_call.calls = 1 /\ ~MissingOrEmpty("message") /\ ~MissingOrEmpty("from"))
  /\ Returned =>
       /\ ~webhook_call.raised
       /\ request # NotJson =>
            IF MissingOrEmpty("message") \/ MissingOrEmpty("from")
              THEN /\ DictGet(webhook_call.ret, "status", "") = "error"
                   /\ DictGet(webhook_call.ret, "message", "") = "Invalid payload"
                   /\ webhook_call.calls = 0
              ELSE /\ webhook_call.calls = 1
                   /\ IF webhook_call.answer.exc
                        THEN DictGet(webhook_call.ret, "status", "") = "error"
                        ELSE /\ DictGet(webhook_call.ret, "status", "") = "success"
                             /\ ~falsy(DictGet(webhook_call.ret, "response", None))
                             /\ DictGet(webhook_call.ret, "response", None) =
                                  IF falsy(Reply) THEN Str(FallbackText) ELSE Reply

\* the posted object holds from: null
NullFrom == request # NotJson /\ DictGet(request, "from", Str("")) = None

\* What holds of whatsapp_webhook: the statement of C21 for every body but
\* those with from: null, and for those status "error" with the text of the
\* exception of line 42 and no call of the orchestrator.
C21_ExceptNullFrom ==
  /\ ~NullFrom => C21_Webhook
  /\ (NullFrom /\ Returned) =>
       /\ ~webhook_call.raised
       /\ webhook_call.ret = WebhookError
       /\ webhook_call.calls = 0

\* a message with from: null has been answered with the except branch
C21_NullFromAnswered ==
  /\ Returned /\ NullFrom /\ ~MissingOrEmpty("message")
  /\ DictGet(webhook_call.ret, "message", "") # "Invalid payload"

\* a message forwarded once and answered with the orchestrator's reply
C21_Forwarded ==
  /\ Returned /\ webhook_call.calls = 1
  /\ DictGet(webhook_call.ret, "status", "") = "success"
  /\ ~falsy(Reply)

====
